---------------------------- MODULE Spec2Model ----------------------------
(***************************************************************************)
(* Model of the toy payment engine: PaymentEngine::process dispatching     *)
(* Deposit / Withdrawal / Dispute / Resolve / Chargeback records against   *)
(* the in-memory account repository and the in-memory transaction          *)
(* repository.  One action handles one record of the input stream, from    *)
(* the ledger lookup to the last store write of its handler.               *)
(*                                                                         *)
(* Decimal values are modelled as integers (scale 0).  Decimal::MAX and    *)
(* Decimal::MIN are scaled down to DecimalMax and -DecimalMax, so that the *)
(* saturating arithmetic of the Account operations is reachable.           *)
(***************************************************************************)
EXTENDS Integers, FiniteSets, Sequences, TLC

\* ------------------------------------------------------------------ bounds
MaxClient == 2
MaxTx == 2
MaxAmount == 1
DecimalMax == 1
MaxRecords == 5
\* A longer stream over more tx ids, for the behaviours that need more
\* records than MaxRecords to show.
MaxTxLong == 3
MaxRecordsLong == 8
\* The store calls of the specification of the two repository locks.
MaxStoreCalls == 3
\* The stream of the step-by-step specification of process.
MaxRecordsStep == 3
\* Two concurrent calls of process: the records their two streams hold
\* together, and a Decimal::MAX that the sum of these records stays below.
MaxRecordsConcurrent == 3
DecimalMaxConcurrent == 3

ClientIds == 1..MaxClient
TransactionIds == 1..MaxTx
\* The amounts of the Deposit and Withdrawal records of the stream.
Amounts == 1..MaxAmount
DecimalMin == 0 - DecimalMax

\* ------------------------------------------------------------- value types
TransactionStatus == {"Processed", "Failed", "Disputed", "Resolved", "Chargedback"}
TransactionType == {"Deposit", "Withdrawal"}

None == [some |-> FALSE]
Some(v) == [some |-> TRUE, val |-> v]

\* ------------------------------------------------------------------- state
VARIABLES accounts, txs, applied, processed, stream, inflight, decimal_max

vars == <<accounts, txs, applied, processed, stream, inflight, decimal_max>>

\* rust_decimal's saturating_add / saturating_sub: the exact result, clamped
\* to Decimal::MIN .. Decimal::MAX when it is not representable.
Clamp(n) ==
    IF n > decimal_max THEN decimal_max
    ELSE IF n < 0 - decimal_max THEN 0 - decimal_max ELSE n
saturating_add(a, b) == Clamp(a + b)
saturating_sub(a, b) == Clamp(a - b)

\* Direction::Increase(amount) / Direction::Decrease(amount)
Increase(amount) == [dir |-> "Increase", amount |-> amount]
Decrease(amount) == [dir |-> "Decrease", amount |-> amount]

\* ---------------------------------------------------------------- Account
AccountNew(client_id) ==
    [client_id |-> client_id, available |-> 0, held |-> 0, total |-> 0, is_locked |-> FALSE]

Ok(acc) == [ok |-> TRUE, acc |-> acc]
Err(acc) == [ok |-> FALSE, acc |-> acc]

\* A deposit that a locked account refuses.
deposit_refusing_locked(self, amount) ==
    IF amount < 0 \/ self.is_locked THEN Err(self)
    ELSE Ok([self EXCEPT !.available = saturating_add(self.available, amount),
                         !.total = saturating_add(self.total, amount)])

deposit(self, amount) ==
    IF amount < 0 THEN Err(self)
    ELSE Ok([self EXCEPT !.available = saturating_add(self.available, amount),
                         !.total = saturating_add(self.total, amount)])

try_withdrawal(self, amount) ==
    IF amount < 0 THEN Err(self)
    ELSE IF amount > self.available THEN Err(self)
    ELSE Ok([self EXCEPT !.available = saturating_sub(self.available, amount),
                         !.total = saturating_sub(self.total, amount)])

dispute(self, direction) ==
    IF direction.dir = "Increase"
    THEN LET held == saturating_add(self.held, direction.amount)
         IN  Ok([self EXCEPT !.held = held,
                             !.total = saturating_add(self.available, held)])
    ELSE IF direction.amount < 0 THEN Err(self)
    ELSE IF direction.amount > self.available THEN Err(self)
    ELSE Ok([self EXCEPT !.available = saturating_sub(self.available, direction.amount),
                         !.held = saturating_add(self.held, direction.amount)])

resolve(self, direction) ==
    IF direction.dir = "Increase"
    THEN Ok([self EXCEPT !.available = saturating_add(self.available, direction.amount),
                         !.held = saturating_sub(self.held, direction.amount)])
    ELSE IF direction.amount < 0 THEN Err(self)
    ELSE Ok([self EXCEPT !.available = saturating_add(self.available, direction.amount),
                         !.held = saturating_sub(self.held, direction.amount)])

chargeback(self, direction) ==
    IF direction.dir = "Increase"
    THEN Ok([self EXCEPT !.is_locked = TRUE])
    ELSE IF direction.amount < 0 THEN Err(self)
    ELSE Ok([self EXCEPT !.available = saturating_sub(self.available, direction.amount),
                         !.total = saturating_sub(self.total, direction.amount),
                         !.is_locked = TRUE])

\* ------------------------------------------------------------ Transaction
from_deposit(d, status) ==
    [id |-> d.tx_id, client_id |-> d.client_id, tx_type |-> "Deposit",
     amount |-> d.amount, status |-> status]

from_withdrawal(w, status) ==
    [id |-> w.tx_id, client_id |-> w.client_id, tx_type |-> "Withdrawal",
     amount |-> w.amount, status |-> status]

\* ----------------------------------------------------- account repository
\* Inner.accounts: HashMap<ClientId, Account>, a function on the stored keys.
AccGet(accs, client_id) ==
    IF client_id \in DOMAIN accs THEN Some(accs[client_id]) ELSE None

\* A get_or_new that forgets the stored account.
get_or_new_always_new(accs, client_id) == AccountNew(client_id)

get_or_new(accs, client_id) ==
    IF client_id \in DOMAIN accs THEN accs[client_id] ELSE AccountNew(client_id)

\* An upsert whose and_modify leaves the lock flag of the stored record.
upsert_keeping_lock(accs, account) ==
    IF account.client_id \in DOMAIN accs
    THEN [accs EXCEPT ![account.client_id] =
              [@ EXCEPT !.available = account.available,
                        !.held = account.held,
                        !.total = account.total]]
    ELSE [c \in DOMAIN accs \cup {account.client_id} |->
              IF c = account.client_id THEN account ELSE accs[c]]

upsert(accs, account) ==
    IF account.client_id \in DOMAIN accs
    THEN [accs EXCEPT ![account.client_id] =
              [@ EXCEPT !.available = account.available,
                        !.held = account.held,
                        !.total = account.total,
                        !.is_locked = account.is_locked]]
    ELSE [c \in DOMAIN accs \cup {account.client_id} |->
              IF c = account.client_id THEN account ELSE accs[c]]

balances(accs) == {accs[c] : c \in DOMAIN accs}

\* ------------------------------------------------- transaction repository
\* Inner.txs: HashMap<TransactionId, Transaction>.
TxGet(repo, tx_id) ==
    IF tx_id \in DOMAIN repo THEN Some(repo[tx_id]) ELSE None

\* An insert that replaces the entry an id already has.
insert_overwriting(repo, tx) ==
    [ok |-> TRUE,
     txs |-> [t \in DOMAIN repo \cup {tx.id} |-> IF t = tx.id THEN tx ELSE repo[t]]]

insert(repo, tx) ==
    IF tx.id \in DOMAIN repo
    THEN [ok |-> FALSE, txs |-> repo]
    ELSE [ok |-> TRUE,
          txs |-> [t \in DOMAIN repo \cup {tx.id} |-> IF t = tx.id THEN tx ELSE repo[t]]]

\* An update_status that enforces the dispute lifecycle itself.
update_status_checking_transition(repo, tx_id, status) ==
    IF /\ tx_id \in DOMAIN repo
       /\ <<repo[tx_id].status, status>> \in
              {<<"Processed", "Disputed">>, <<"Disputed", "Resolved">>,
               <<"Resolved", "Chargedback">>}
    THEN [ok |-> TRUE, txs |-> [repo EXCEPT ![tx_id].status = status]]
    ELSE [ok |-> FALSE, txs |-> repo]

update_status(repo, tx_id, status) ==
    IF tx_id \in DOMAIN repo
    THEN [ok |-> TRUE, txs |-> [repo EXCEPT ![tx_id].status = status]]
    ELSE [ok |-> FALSE, txs |-> repo]

\* ------------------------------------------------------ engine: the guards
prevent_replay_attack(maybe_tx) ==
    ~(maybe_tx.some /\ maybe_tx.val.status = "Processed")

ensure_tx_and_status(maybe_tx, expected_status) ==
    maybe_tx.some /\ maybe_tx.val.status = expected_status

\* A dispute guard that only asks for the entry to exist.
tx_exists_in_any_status(maybe_tx) == maybe_tx.some

tx_exists_and_has_been_processed(maybe_tx) == ensure_tx_and_status(maybe_tx, "Processed")

\* A resolve guard that asks for the status the dispute guard asks for.
tx_exists_and_not_yet_disputed(maybe_tx) == ensure_tx_and_status(maybe_tx, "Processed")

tx_exists_and_has_been_disputed(maybe_tx) == ensure_tx_and_status(maybe_tx, "Disputed")

tx_exists_and_has_been_resolved(maybe_tx) == ensure_tx_and_status(maybe_tx, "Resolved")

\* The direction every dispatch arm derives from the referenced transaction.
DirectionOf(tx) ==
    IF tx.tx_type = "Withdrawal" THEN Increase(tx.amount) ELSE Decrease(tx.amount)

\* ---------------------------------------------------- engine: the handlers
\* Each handler yields the two stores after it ran, its Result (ok) and
\* whether it reached accounts.upsert (upserted).
handle_deposit(accs, repo, d) ==
    LET new_acc == get_or_new(accs, d.client_id)
        r == deposit(new_acc, d.amount)
        tx == from_deposit(d, IF r.ok THEN "Processed" ELSE "Failed")
        ins == insert(repo, tx)
    IN  [accounts |-> IF r.ok THEN upsert(accs, r.acc) ELSE accs,
         txs |-> ins.txs, ok |-> ins.ok, upserted |-> r.ok]

\* A handle_withdrawal that looks the account up with get_or_new and stores
\* it whatever try_withdrawal said.
handle_withdrawal_storing_account(accs, repo, w) ==
    LET acc == get_or_new(accs, w.client_id)
        r == try_withdrawal(acc, w.amount)
        tx == from_withdrawal(w, IF r.ok THEN "Processed" ELSE "Failed")
        ins == insert(repo, tx)
    IN  [accounts |-> upsert(accs, r.acc), txs |-> ins.txs, ok |-> ins.ok, upserted |-> TRUE]

handle_withdrawal(accs, repo, w) ==
    LET acc == AccGet(accs, w.client_id)
        r == IF acc.some THEN try_withdrawal(acc.val, w.amount) ELSE Err(AccountNew(w.client_id))
        tx == from_withdrawal(w, IF r.ok THEN "Processed" ELSE "Failed")
        ins == insert(repo, tx)
    IN  [accounts |-> IF r.ok THEN upsert(accs, r.acc) ELSE accs,
         txs |-> ins.txs, ok |-> ins.ok, upserted |-> r.ok]

\* A handle_dispute that marks the entry Disputed whatever the account said.
handle_dispute_marking_first(accs, repo, rec, direction) ==
    LET acc == AccGet(accs, rec.client_id)
        r == IF acc.some THEN dispute(acc.val, direction) ELSE Err(AccountNew(rec.client_id))
        upd == update_status(repo, rec.tx_id, "Disputed")
    IN  IF r.ok
        THEN [accounts |-> upsert(accs, r.acc), txs |-> upd.txs, ok |-> upd.ok, upserted |-> TRUE]
        ELSE [accounts |-> accs, txs |-> upd.txs, ok |-> FALSE, upserted |-> FALSE]

handle_dispute(accs, repo, rec, direction) ==
    LET acc == AccGet(accs, rec.client_id)
        r == IF acc.some THEN dispute(acc.val, direction) ELSE Err(AccountNew(rec.client_id))
        upd == update_status(repo, rec.tx_id, "Disputed")
    IN  IF r.ok
        THEN [accounts |-> upsert(accs, r.acc), txs |-> upd.txs, ok |-> upd.ok, upserted |-> TRUE]
        ELSE [accounts |-> accs, txs |-> repo, ok |-> FALSE, upserted |-> FALSE]

handle_resolve(accs, repo, rec, direction) ==
    LET acc == AccGet(accs, rec.client_id)
        r == IF acc.some THEN resolve(acc.val, direction) ELSE Err(AccountNew(rec.client_id))
        upd == update_status(repo, rec.tx_id, "Resolved")
    IN  IF r.ok
        THEN [accounts |-> upsert(accs, r.acc), txs |-> upd.txs, ok |-> upd.ok, upserted |-> TRUE]
        ELSE [accounts |-> accs, txs |-> repo, ok |-> FALSE, upserted |-> FALSE]

handle_chargeback(accs, repo, rec, direction) ==
    LET acc == AccGet(accs, rec.client_id)
        r == IF acc.some THEN chargeback(acc.val, direction) ELSE Err(AccountNew(rec.client_id))
        upd == update_status(repo, rec.tx_id, "Chargedback")
    IN  IF r.ok
        THEN [accounts |-> upsert(accs, r.acc), txs |-> upd.txs, ok |-> upd.ok, upserted |-> TRUE]
        ELSE [accounts |-> accs, txs |-> repo, ok |-> FALSE, upserted |-> FALSE]

\* The outcome of a record that its dispatch arm rejects before any handler.
Rejected(accs, repo) == [accounts |-> accs, txs |-> repo, ok |-> FALSE, upserted |-> FALSE]

\* ------------------------------------------- process: one arm per variant
\* What each arm of the match in process makes of a record, given the stores.
process_deposit(accs, repo, rec) ==
    LET existing_tx == TxGet(repo, rec.tx_id)
    IN  IF prevent_replay_attack(existing_tx)
        THEN handle_deposit(accs, repo, rec)
        ELSE Rejected(accs, repo)

process_withdrawal(accs, repo, rec) ==
    LET existing_tx == TxGet(repo, rec.tx_id)
    IN  IF prevent_replay_attack(existing_tx)
        THEN handle_withdrawal(accs, repo, rec)
        ELSE Rejected(accs, repo)

process_dispute(accs, repo, rec) ==
    LET referenced_tx == TxGet(repo, rec.tx_id)
    IN  IF tx_exists_and_has_been_processed(referenced_tx)
        THEN handle_dispute(accs, repo, rec, DirectionOf(referenced_tx.val))
        ELSE Rejected(accs, repo)

process_resolve(accs, repo, rec) ==
    LET referenced_tx == TxGet(repo, rec.tx_id)
    IN  IF tx_exists_and_has_been_disputed(referenced_tx)
        THEN handle_resolve(accs, repo, rec, DirectionOf(referenced_tx.val))
        ELSE Rejected(accs, repo)

process_chargeback(accs, repo, rec) ==
    LET referenced_tx == TxGet(repo, rec.tx_id)
    IN  IF tx_exists_and_has_been_resolved(referenced_tx)
        THEN handle_chargeback(accs, repo, rec, DirectionOf(referenced_tx.val))
        ELSE Rejected(accs, repo)

\* ------------------------------------------------------------------- state
\* accounts, txs: the maps of the two repositories.
\* applied:   the tx ids whose Deposit or Withdrawal has been applied to an
\*            account at least once (history of the accounts.upsert calls of
\*            handle_deposit and handle_withdrawal).
\* processed: the number of records process has taken from the stream; the
\*            stream holds at most stream.len records.
\* stream:    the input stream handed to process, reduced to its length
\*            (len) and the tx ids its records can carry (tx_ids).
\* inflight:  the arms of process that have begun and have not completed
\*            (used by the step-by-step specification only), each with its
\*            record, the position it has reached and its local values.
\* decimal_max: Decimal::MAX in the unit of the model; Decimal::MIN is its
\*            negation.  A constant of every behaviour: DecimalMax where the
\*            amounts of the stream reach it, DecimalMaxConcurrent where
\*            they stay below it.

StatusOf(repo, tx_id) == IF tx_id \in DOMAIN repo THEN repo[tx_id].status ELSE "Absent"

Init ==
    /\ accounts = [c \in {} |-> AccountNew(c)]
    /\ txs = [t \in {} |-> from_deposit([tx_id |-> t, client_id |-> 0, amount |-> 0], "Failed")]
    /\ applied = {}
    /\ processed = 0
    /\ stream = [len |-> MaxRecords, tx_ids |-> TransactionIds]
    /\ inflight = {}
    /\ decimal_max = DecimalMax

\* The same engine in front of a longer stream.
LongInit ==
    /\ accounts = [c \in {} |-> AccountNew(c)]
    /\ txs = [t \in {} |-> from_deposit([tx_id |-> t, client_id |-> 0, amount |-> 0], "Failed")]
    /\ applied = {}
    /\ processed = 0
    /\ stream = [len |-> MaxRecordsLong, tx_ids |-> 1..MaxTxLong]
    /\ inflight = {}
    /\ decimal_max = DecimalMax

\* The loop of process, had it left on the first Err of an arm (a ? or a break
\* on _res): the rest of the stream is then never dispatched.
CommitAbortingOnError(out) ==
    /\ processed < stream.len
    /\ processed' = IF out.ok THEN processed + 1 ELSE stream.len
    /\ accounts' = out.accounts
    /\ txs' = out.txs
    /\ UNCHANGED <<stream, inflight, decimal_max>>

\* One iteration of the while loop: the next record is taken from the
\* stream and the stores become what its arm left.
Commit(out) ==
    /\ processed < stream.len
    /\ processed' = processed + 1
    /\ accounts' = out.accounts
    /\ txs' = out.txs
    /\ UNCHANGED <<stream, inflight, decimal_max>>

DispatchDeposit(rec) ==
    LET out == process_deposit(accounts, txs, rec)
    IN  /\ Commit(out)
        /\ applied' = IF out.upserted THEN applied \cup {rec.tx_id} ELSE applied

DispatchWithdrawal(rec) ==
    LET out == process_withdrawal(accounts, txs, rec)
    IN  /\ Commit(out)
        /\ applied' = IF out.upserted THEN applied \cup {rec.tx_id} ELSE applied

DispatchDispute(rec) ==
    /\ Commit(process_dispute(accounts, txs, rec))
    /\ UNCHANGED applied

DispatchResolve(rec) ==
    /\ Commit(process_resolve(accounts, txs, rec))
    /\ UNCHANGED applied

DispatchChargeback(rec) ==
    /\ Commit(process_chargeback(accounts, txs, rec))
    /\ UNCHANGED applied

\* ClientId and TransactionId are opaque keys (Eq and Hash only), so every
\* input sequence is, up to a renaming of its ids, one that takes new ids in
\* increasing order: a record names a client or tx id that a store already
\* holds or that the record of an arm in flight carries, or the smallest id
\* that none of them has yet.
FirstUnused(ids, used) ==
    {x \in ids : x \notin used /\ \A y \in ids : y < x => y \in used}

SeenClients ==
    DOMAIN accounts \cup {txs[t].client_id : t \in DOMAIN txs}
                    \cup {arm.rec.client_id : arm \in inflight}
SeenTxIds == DOMAIN txs \cup {arm.rec.tx_id : arm \in inflight}
StreamClients == SeenClients \cup FirstUnused(ClientIds, SeenClients)
StreamTxIds == SeenTxIds \cup FirstUnused(stream.tx_ids, SeenTxIds)

\* The records the decoder can hand to process: Deposit and Withdrawal carry
\* a NonNegativeDecimal, the other three carry no amount.
AmountRecords == [client_id : StreamClients, tx_id : StreamTxIds, amount : Amounts]
ReferenceRecords == [client_id : StreamClients, tx_id : StreamTxIds]

Deposit == \E rec \in AmountRecords : DispatchDeposit(rec)
Withdrawal == \E rec \in AmountRecords : DispatchWithdrawal(rec)
Dispute == \E rec \in ReferenceRecords : DispatchDispute(rec)
Resolve == \E rec \in ReferenceRecords : DispatchResolve(rec)
Chargeback == \E rec \in ReferenceRecords : DispatchChargeback(rec)

Next == Deposit \/ Withdrawal \/ Dispute \/ Resolve \/ Chargeback

Spec == Init /\ [][Next]_vars

LongSpec == LongInit /\ [][Next]_vars

\* --------------------------------- streams that name the owner of the entry
\* The input streams in which every Dispute, Resolve and Chargeback carries
\* the client id of the ledger entry it references (a reference to a tx id
\* the ledger does not hold carries any client id).
OwnerReferenceRecords ==
    {rec \in ReferenceRecords :
        rec.tx_id \in DOMAIN txs => rec.client_id = txs[rec.tx_id].client_id}

OwnerDispute == \E rec \in OwnerReferenceRecords : DispatchDispute(rec)
OwnerResolve == \E rec \in OwnerReferenceRecords : DispatchResolve(rec)
OwnerChargeback == \E rec \in OwnerReferenceRecords : DispatchChargeback(rec)

OwnerNext == Deposit \/ Withdrawal \/ OwnerDispute \/ OwnerResolve \/ OwnerChargeback

OwnerSpec == Init /\ [][OwnerNext]_vars

\* The sum of the amounts of the entries of client c that are Disputed.
RECURSIVE SumOfAmounts(_, _)
SumOfAmounts(repo, ids) ==
    IF ids = {} THEN 0
    ELSE LET t == CHOOSE x \in ids : TRUE
         IN  repo[t].amount + SumOfAmounts(repo, ids \ {t})

DisputedAmount(repo, c) ==
    SumOfAmounts(repo, {t \in DOMAIN repo :
                          repo[t].client_id = c /\ repo[t].status = "Disputed"})

\* ------------------------------------------- process, one store call a step
\* The same loop with every await of an arm as a step of its own: the ledger
\* lookup and guard of the dispatcher (BeginRecord), the account lookup and
\* the Account operation on the local copy (AccountGetStep), accounts.upsert
\* (AccountUpsertStep) and transactions.insert / update_status
\* (LedgerWriteStep).
StepInit ==
    /\ accounts = [c \in {} |-> AccountNew(c)]
    /\ txs = [t \in {} |-> from_deposit([tx_id |-> t, client_id |-> 0, amount |-> 0], "Failed")]
    /\ applied = {}
    /\ processed = 0
    /\ stream = [len |-> MaxRecordsStep, tx_ids |-> TransactionIds]
    /\ inflight = {}
    /\ decimal_max = DecimalMax

RecordKinds == {"Deposit", "Withdrawal", "Dispute", "Resolve", "Chargeback"}

\* The guard of the dispatch arm of each variant.
ArmGuard(kind, maybe_tx) ==
    CASE kind \in {"Deposit", "Withdrawal"} -> prevent_replay_attack(maybe_tx)
      [] kind = "Dispute" -> tx_exists_and_has_been_processed(maybe_tx)
      [] kind = "Resolve" -> tx_exists_and_has_been_disputed(maybe_tx)
      [] kind = "Chargeback" -> tx_exists_and_has_been_resolved(maybe_tx)

\* The arm of each variant applied in one piece.
ArmOutcome(kind, accs, repo, rec) ==
    CASE kind = "Deposit" -> process_deposit(accs, repo, rec)
      [] kind = "Withdrawal" -> process_withdrawal(accs, repo, rec)
      [] kind = "Dispute" -> process_dispute(accs, repo, rec)
      [] kind = "Resolve" -> process_resolve(accs, repo, rec)
      [] kind = "Chargeback" -> process_chargeback(accs, repo, rec)

\* A loop that hands every arm to a task of its own and takes the next
\* record at once.
ArmSpawned == TRUE

\* The arm is awaited inside the loop body: stream.next() is polled again
\* only when the future of the previous arm has completed.
ArmAwaited == inflight = {}

\* The head of an iteration in the process call of one caller: stream.next(),
\* the ledger lookup and the guard of the dispatch arm.
TakeRecord(caller) ==
    \E kind \in RecordKinds :
        \E rec \in (IF kind \in {"Deposit", "Withdrawal"} THEN AmountRecords ELSE ReferenceRecords) :
            LET maybe_tx == TxGet(txs, rec.tx_id)
                arm == [n |-> processed + 1, caller |-> caller, kind |-> kind, rec |-> rec,
                        pc |-> "account_get",
                        direction |-> IF kind \in {"Deposit", "Withdrawal"}
                                      THEN Increase(rec.amount)
                                      ELSE DirectionOf(maybe_tx.val),
                        acc |-> AccountNew(rec.client_id), op_ok |-> FALSE,
                        start |-> [accounts |-> accounts, txs |-> txs]]
            IN  /\ processed < stream.len
                /\ processed' = processed + 1
                /\ inflight' = IF ArmGuard(kind, maybe_tx) THEN inflight \cup {arm} ELSE inflight
                /\ UNCHANGED <<accounts, txs, applied, stream, decimal_max>>

BeginRecord == ArmAwaited /\ TakeRecord(1)

\* The Account operation of each handler on its local copy of the account.
AccountOperation(arm, accs) ==
    LET acc == AccGet(accs, arm.rec.client_id)
        missing == Err(AccountNew(arm.rec.client_id))
    IN  CASE arm.kind = "Deposit" -> deposit(get_or_new(accs, arm.rec.client_id), arm.rec.amount)
          [] arm.kind = "Withdrawal" ->
                IF acc.some THEN try_withdrawal(acc.val, arm.rec.amount) ELSE missing
          [] arm.kind = "Dispute" -> IF acc.some THEN dispute(acc.val, arm.direction) ELSE missing
          [] arm.kind = "Resolve" -> IF acc.some THEN resolve(acc.val, arm.direction) ELSE missing
          [] arm.kind = "Chargeback" ->
                IF acc.some THEN chargeback(acc.val, arm.direction) ELSE missing

AccountGetStep ==
    \E arm \in inflight :
        LET r == AccountOperation(arm, accounts)
        IN  /\ arm.pc = "account_get"
            /\ inflight' =
                  IF r.ok
                  THEN (inflight \ {arm}) \cup {[arm EXCEPT !.pc = "account_upsert", !.acc = r.acc]}
                  ELSE IF arm.kind \in {"Deposit", "Withdrawal"}
                       THEN (inflight \ {arm}) \cup {[arm EXCEPT !.pc = "ledger_write"]}
                       ELSE inflight \ {arm}
            /\ UNCHANGED <<accounts, txs, applied, processed, stream, decimal_max>>

AccountUpsertStep ==
    \E arm \in inflight :
        /\ arm.pc = "account_upsert"
        /\ accounts' = upsert(accounts, arm.acc)
        /\ applied' = IF arm.kind \in {"Deposit", "Withdrawal"}
                      THEN applied \cup {arm.rec.tx_id} ELSE applied
        /\ inflight' = (inflight \ {arm}) \cup {[arm EXCEPT !.pc = "ledger_write", !.op_ok = TRUE]}
        /\ UNCHANGED <<txs, processed, stream, decimal_max>>

\* The ledger write that ends each handler.
LedgerWrite(arm, repo) ==
    LET status == IF arm.op_ok THEN "Processed" ELSE "Failed"
    IN  CASE arm.kind = "Deposit" -> insert(repo, from_deposit(arm.rec, status))
          [] arm.kind = "Withdrawal" -> insert(repo, from_withdrawal(arm.rec, status))
          [] arm.kind = "Dispute" -> update_status(repo, arm.rec.tx_id, "Disputed")
          [] arm.kind = "Resolve" -> update_status(repo, arm.rec.tx_id, "Resolved")
          [] arm.kind = "Chargeback" -> update_status(repo, arm.rec.tx_id, "Chargedback")

LedgerWriteStep ==
    \E arm \in inflight :
        /\ arm.pc = "ledger_write"
        /\ txs' = LedgerWrite(arm, txs).txs
        /\ inflight' = inflight \ {arm}
        /\ UNCHANGED <<accounts, applied, processed, stream, decimal_max>>

StepNext == BeginRecord \/ AccountGetStep \/ AccountUpsertStep \/ LedgerWriteStep

StepSpec == StepInit /\ [][StepNext]_vars

\* ------------------------------------- two calls of process on shared stores
\* process takes &self and the engine holds its two repositories as Arc, each
\* an Arc<RwLock<Inner>>: two process calls on one engine, or on two engines
\* built on the same repositories, work on the same two maps.  Each
\* call runs its own loop and awaits its own arm; between two awaits of one
\* call the other call can run any number of its store calls.  Every store
\* call holds the lock of its repository from its first statement to its
\* return, so it is one step here.
Callers == {1, 2}

ConcurrentInit ==
    /\ accounts = [c \in {} |-> AccountNew(c)]
    /\ txs = [t \in {} |-> from_deposit([tx_id |-> t, client_id |-> 0, amount |-> 0], "Failed")]
    /\ applied = {}
    /\ processed = 0
    /\ stream = [len |-> MaxRecordsConcurrent, tx_ids |-> TransactionIds]
    /\ inflight = {}
    /\ decimal_max = DecimalMaxConcurrent

\* A call takes its next record when its own previous arm has completed.
CallerAwaited(caller) == \A arm \in inflight : arm.caller # caller

ConcurrentBegin == \E caller \in Callers : CallerAwaited(caller) /\ TakeRecord(caller)

ConcurrentNext == ConcurrentBegin \/ AccountGetStep \/ AccountUpsertStep \/ LedgerWriteStep

ConcurrentSpec == ConcurrentInit /\ [][ConcurrentNext]_vars

\* ------------------------------------ the store calls under their RwLock
\* InMemoryAccountRepository and InMemoryTxRepository keep their map behind
\* a tokio RwLock.  Every trait method awaits the guard first (read() in get,
\* get_or_new and balances, write() in upsert, insert and update_status),
\* runs the method of Inner under it and drops it on return.  Here every
\* statement of Inner that changes the map is a step: the four assignments
\* of and_modify in upsert are four steps.  inflight holds the calls that
\* have been made and have not returned, processed counts the calls made.
\* Each of the two callers awaits its call before it makes the next one.
LockInit ==
    /\ accounts = [c \in {} |-> AccountNew(c)]
    /\ txs = [t \in {} |-> from_deposit([tx_id |-> t, client_id |-> 0, amount |-> 0], "Failed")]
    /\ applied = {}
    /\ processed = 0
    /\ stream = [len |-> MaxStoreCalls, tx_ids |-> TransactionIds]
    /\ inflight = {}
    /\ decimal_max = DecimalMax

AccountCalls == {"get", "get_or_new", "balances", "upsert"}
LedgerCalls == {"tx_get", "insert", "update_status"}
WriterCalls == {"upsert", "insert", "update_status"}

\* The accounts the handlers pass to upsert after a Deposit or after the
\* Chargeback of a Deposit: nothing held, total equal to available.
WrittenAccounts ==
    {[client_id |-> c, available |-> v, held |-> 0, total |-> v, is_locked |-> l] :
        c \in ClientIds, v \in {0, DecimalMax}, l \in BOOLEAN}

WrittenTransactions ==
    {from_deposit([tx_id |-> t, client_id |-> 1, amount |-> a], "Processed") :
        t \in TransactionIds, a \in Amounts}

\* The arguments of a call of each method.
CallArguments(kind) ==
    CASE kind \in {"get", "get_or_new"} -> ClientIds
      [] kind = "balances" -> {<<>>}
      [] kind = "upsert" -> WrittenAccounts
      [] kind = "tx_get" -> TransactionIds
      [] kind = "insert" -> WrittenTransactions
      [] kind = "update_status" ->
            [tx_id : TransactionIds, status : {"Disputed", "Resolved"}]

SameStore(kind, other) == (kind \in AccountCalls) = (other \in AccountCalls)

\* The guards of the lock of the store of a call, as held by the other calls.
WriteGuardHeld(kind) ==
    \E call \in inflight :
        SameStore(kind, call.kind) /\ call.kind \in WriterCalls /\ call.pc # "waiting"

ReadGuardHeld(kind) ==
    \E call \in inflight :
        SameStore(kind, call.kind) /\ call.kind \notin WriterCalls /\ call.pc # "waiting"

\* A read() that is granted while another call holds the write guard.
RwLockReadIgnoringWriter(kind) == TRUE

\* tokio::sync::RwLock: read() completes when no write guard is held,
\* write() when no guard is held at all.
RwLockRead(kind) == ~WriteGuardHeld(kind)
RwLockWrite(kind) == ~WriteGuardHeld(kind) /\ ~ReadGuardHeld(kind)

\* A caller calls a method of a repository: the call waits for its guard.
\* start remembers what the map held for the client at the time of a get.
StoreCall ==
    \E caller \in Callers, kind \in AccountCalls \cup LedgerCalls :
        \E arg \in CallArguments(kind) :
            /\ processed < stream.len
            /\ CallerAwaited(caller)
            /\ processed' = processed + 1
            /\ inflight' = inflight \cup
                    {[caller |-> caller, kind |-> kind, arg |-> arg, pc |-> "waiting",
                      written |-> 0, before |-> None, seen |-> {},
                      start |-> IF kind = "get" THEN AccGet(accounts, arg) ELSE None]}
            /\ UNCHANGED <<accounts, txs, applied, stream, decimal_max>>

AcquireRead ==
    \E call \in inflight :
        /\ call.kind \notin WriterCalls
        /\ call.pc = "waiting"
        /\ RwLockRead(call.kind)
        /\ inflight' = (inflight \ {call}) \cup {[call EXCEPT !.pc = "held"]}
        /\ UNCHANGED <<accounts, txs, applied, processed, stream, decimal_max>>

\* before remembers the stored account at the time the write guard is taken.
AcquireWrite ==
    \E call \in inflight :
        /\ call.kind \in WriterCalls
        /\ call.pc = "waiting"
        /\ RwLockWrite(call.kind)
        /\ inflight' = (inflight \ {call}) \cup
                {[call EXCEPT !.pc = "held",
                              !.before = IF call.kind = "upsert"
                                         THEN AccGet(accounts, call.arg.client_id)
                                         ELSE None]}
        /\ UNCHANGED <<accounts, txs, applied, processed, stream, decimal_max>>

\* What the method of Inner returns under the read guard.
Observed(call) ==
    CASE call.kind = "get" -> {AccGet(accounts, call.arg)}
      [] call.kind = "get_or_new" -> {Some(get_or_new(accounts, call.arg))}
      [] call.kind = "balances" -> {Some(acc) : acc \in balances(accounts)}
      [] call.kind = "tx_get" -> {TxGet(txs, call.arg)}

CopyUnderReadGuard ==
    \E call \in inflight :
        /\ call.kind \notin WriterCalls
        /\ call.pc = "held"
        /\ inflight' = (inflight \ {call}) \cup
                {[call EXCEPT !.pc = "returning", !.seen = Observed(call)]}
        /\ UNCHANGED <<accounts, txs, applied, processed, stream, decimal_max>>

\* The stored record after the first k assignments of the and_modify closure.
and_modify(occupied, account, k) ==
    [occupied EXCEPT
        !.available = IF k >= 1 THEN account.available ELSE @,
        !.held = IF k >= 2 THEN account.held ELSE @,
        !.total = IF k >= 3 THEN account.total ELSE @,
        !.is_locked = IF k >= 4 THEN account.is_locked ELSE @]

\* Inner::upsert on an occupied entry: the next assignment of and_modify.
UpsertAssign ==
    \E call \in inflight :
        /\ call.kind = "upsert"
        /\ call.pc = "held"
        /\ call.arg.client_id \in DOMAIN accounts
        /\ accounts' = [accounts EXCEPT ![call.arg.client_id] =
                            and_modify(@, call.arg, call.written + 1)]
        /\ inflight' = (inflight \ {call}) \cup
                {[call EXCEPT !.written = @ + 1,
                              !.pc = IF call.written + 1 = 4 THEN "returning" ELSE "held"]}
        /\ UNCHANGED <<txs, applied, processed, stream, decimal_max>>

\* Inner::upsert on a vacant entry: or_insert.
UpsertInsert ==
    \E call \in inflight :
        /\ call.kind = "upsert"
        /\ call.pc = "held"
        /\ call.arg.client_id \notin DOMAIN accounts
        /\ accounts' = upsert(accounts, call.arg)
        /\ inflight' = (inflight \ {call}) \cup {[call EXCEPT !.pc = "returning"]}
        /\ UNCHANGED <<txs, applied, processed, stream, decimal_max>>

\* Inner::insert and Inner::update_status: one statement changes the map.
LedgerWriteUnderGuard ==
    \E call \in inflight :
        /\ call.kind \in {"insert", "update_status"}
        /\ call.pc = "held"
        /\ txs' = IF call.kind = "insert"
                  THEN insert(txs, call.arg).txs
                  ELSE update_status(txs, call.arg.tx_id, call.arg.status).txs
        /\ inflight' = (inflight \ {call}) \cup {[call EXCEPT !.pc = "returning"]}
        /\ UNCHANGED <<accounts, applied, processed, stream, decimal_max>>

\* The method returns and its guard is dropped.
ReturnFromStore ==
    \E call \in inflight :
        /\ call.pc = "returning"
        /\ inflight' = inflight \ {call}
        /\ UNCHANGED <<accounts, txs, applied, processed, stream, decimal_max>>

LockNext ==
    \/ StoreCall
    \/ AcquireRead
    \/ AcquireWrite
    \/ CopyUnderReadGuard
    \/ UpsertAssign
    \/ UpsertInsert
    \/ LedgerWriteUnderGuard
    \/ ReturnFromStore

LockSpec == LockInit /\ [][LockNext]_vars

\* The values of the account of a client that a read may return: the stored
\* one, or while an upsert of that client holds the write guard the one from
\* before it and the one from after it.
WholeAccounts(client_id) ==
    LET writers == {w \in inflight : /\ w.kind = "upsert"
                                     /\ w.pc = "held"
                                     /\ w.arg.client_id = client_id}
    IN  IF writers = {} THEN {AccGet(accounts, client_id)}
        ELSE UNION {{w.before, Some(upsert(accounts, w.arg)[client_id])} : w \in writers}

TypeOK ==
    /\ DOMAIN accounts \subseteq ClientIds
    /\ \A c \in DOMAIN accounts :
          /\ accounts[c].client_id = c
          /\ accounts[c].available \in (0 - decimal_max)..decimal_max
          /\ accounts[c].held \in (0 - decimal_max)..decimal_max
          /\ accounts[c].total \in (0 - decimal_max)..decimal_max
          /\ accounts[c].is_locked \in BOOLEAN
    /\ DOMAIN txs \subseteq stream.tx_ids
    /\ \A t \in DOMAIN txs :
          /\ txs[t].id = t
          /\ txs[t].client_id \in ClientIds
          /\ txs[t].tx_type \in TransactionType
          /\ txs[t].amount \in Amounts
          /\ txs[t].status \in TransactionStatus
    /\ applied \subseteq stream.tx_ids
    /\ processed \in 0..stream.len
    /\ stream.len \in {MaxRecords, MaxRecordsLong, MaxRecordsStep, MaxRecordsConcurrent,
                       MaxStoreCalls}
    /\ decimal_max \in {DecimalMax, DecimalMaxConcurrent}
    /\ stream.tx_ids \in {TransactionIds, 1..MaxTxLong}
    /\ \A call \in {c \in inflight : c.kind \notin RecordKinds} :
          /\ call.caller \in Callers
          /\ call.kind \in AccountCalls \cup LedgerCalls
          /\ call.arg \in CallArguments(call.kind)
          /\ call.pc \in {"waiting", "held", "returning"}
          /\ call.written \in 0..4
    /\ \A arm \in {a \in inflight : a.kind \in RecordKinds} :
          /\ arm.n \in 1..processed
          /\ arm.caller \in Callers
          /\ arm.kind \in RecordKinds
          /\ arm.pc \in {"account_get", "account_upsert", "ledger_write"}
          /\ arm.rec.client_id \in ClientIds
          /\ arm.rec.tx_id \in stream.tx_ids
          /\ arm.op_ok \in BOOLEAN

\* ================================================================== claims

\* The balances of a client, zero for a client without account.
BalancesOf(accs, c) ==
    IF c \in DOMAIN accs
    THEN <<accs[c].available, accs[c].held, accs[c].total>>
    ELSE <<0, 0, 0>>

SameBalances(accs1, accs2) ==
    \A c \in ClientIds : BalancesOf(accs1, c) = BalancesOf(accs2, c)

\* C1: every stored account satisfies total = available + held.
TotalIsAvailablePlusHeld ==
    \A c \in DOMAIN accounts :
        accounts[c].total = accounts[c].available + accounts[c].held

\* C2: every stored account has available >= 0 (an event that would drive
\* available below zero fails and leaves the account as it was).
AvailableNeverNegative ==
    \A c \in DOMAIN accounts : accounts[c].available >= 0

\* C3: every stored account has held >= 0.
HeldNeverNegative ==
    \A c \in DOMAIN accounts : accounts[c].held >= 0

\* C4: an account that is locked is still stored and still locked after
\* whatever record is processed next.
LockedStaysLocked ==
    [][\A c \in DOMAIN accounts :
          accounts[c].is_locked => (c \in DOMAIN accounts' /\ accounts'[c].is_locked)]_vars

\* An account has been locked by a chargeback and the stream has records
\* left, so that records of every kind are processed on top of the lock.
LockedAccountBeforeMoreRecords ==
    /\ processed < stream.len
    /\ \E c \in DOMAIN accounts : accounts[c].is_locked

\* C5: once a Deposit record has been processed, processing the same record
\* again leaves the balances as the first application left them, is rejected
\* before it reaches the account, and the ledger entry of its tx id has
\* status Processed.
SameDepositAgainIsRejected ==
    [][\A rec \in AmountRecords :
          DispatchDeposit(rec) =>
              LET again == process_deposit(accounts', txs', rec)
              IN  /\ SameBalances(again.accounts, accounts')
                  /\ ~again.upserted
                  /\ StatusOf(again.txs, rec.tx_id) = "Processed"]_vars

\* C6: a Deposit or Withdrawal whose tx id has already been applied to an
\* account changes no account's balances.
AppliedAtMostOnce ==
    [][\A rec \in AmountRecords :
          ((DispatchDeposit(rec) \/ DispatchWithdrawal(rec)) /\ rec.tx_id \in applied)
              => SameBalances(accounts', accounts)]_vars

\* C7: a Chargeback succeeds exactly when the entry it references is
\* Disputed, and the entry is then Chargedback.
ChargebackIffDisputed ==
    [][\A rec \in ReferenceRecords :
          DispatchChargeback(rec) =>
              LET out == process_chargeback(accounts, txs, rec)
              IN  /\ out.ok <=> (StatusOf(txs, rec.tx_id) = "Disputed")
                  /\ out.ok => StatusOf(txs', rec.tx_id) = "Chargedback"]_vars

\* C8: an entry with status Resolved keeps status Resolved.
ResolvedIsTerminal ==
    [][\A t \in DOMAIN txs :
          txs[t].status = "Resolved" => StatusOf(txs', t) = "Resolved"]_vars

\* C9: in every state, a Dispute record succeeds or changes a store only if
\* its tx id has a Processed entry; a Dispute of a tx id without entry, or
\* with an entry in another status, is rejected, and neither the ledger (no
\* entry created, no status changed) nor any account (none created, none
\* changed) differs afterwards.
DisputeOnlyOfProcessed ==
    \A rec \in ReferenceRecords :
        LET out == process_dispute(accounts, txs, rec)
        IN  /\ (out.ok \/ out.upserted \/ out.txs # txs \/ out.accounts # accounts)
                  => StatusOf(txs, rec.tx_id) = "Processed"
            /\ StatusOf(txs, rec.tx_id) # "Processed"
                  => /\ ~out.ok
                     /\ out.txs = txs
                     /\ out.accounts = accounts

\* A Dispute has been applied (an entry is Disputed) while another tx id has
\* no ledger entry yet: a Dispute of either is one that must be rejected.
DisputedEntryAndUnknownId ==
    /\ \E t \in DOMAIN txs : txs[t].status = "Disputed"
    /\ \E t \in TransactionIds : t \notin DOMAIN txs
    /\ \E rec \in ReferenceRecords : ~process_dispute(accounts, txs, rec).ok

\* C10: in every state, a Resolve record succeeds or changes a store only if
\* the referenced entry is Disputed, and a Resolve that succeeds leaves the
\* entry Resolved; a Resolve of a missing entry or of an entry in another
\* status is rejected and changes nothing.
ResolveOnlyOfDisputed ==
    \A rec \in ReferenceRecords :
        LET out == process_resolve(accounts, txs, rec)
        IN  /\ (out.ok \/ out.upserted \/ out.txs # txs \/ out.accounts # accounts)
                  => StatusOf(txs, rec.tx_id) = "Disputed"
            /\ out.ok => StatusOf(out.txs, rec.tx_id) = "Resolved"
            /\ StatusOf(txs, rec.tx_id) # "Disputed"
                  => /\ ~out.ok
                     /\ out.txs = txs
                     /\ out.accounts = accounts

\* A Resolve has been applied (an entry is Resolved) and another entry is
\* Disputed, so that a Resolve of it succeeds and one of the Resolved entry
\* is rejected.
ResolvedEntryAndDisputedEntry ==
    /\ \E t \in DOMAIN txs : txs[t].status = "Resolved"
    /\ \E rec \in ReferenceRecords : process_resolve(accounts, txs, rec).ok
    /\ \E rec \in ReferenceRecords :
          /\ StatusOf(txs, rec.tx_id) = "Resolved"
          /\ ~process_resolve(accounts, txs, rec).ok

\* C11: an entry with status Failed keeps status Failed whatever record is
\* processed next, and a Dispute, Resolve or Chargeback that references a
\* Failed entry is rejected and changes no account.
FailedIsTerminal ==
    /\ [][\A t \in DOMAIN txs :
              txs[t].status = "Failed" => StatusOf(txs', t) = "Failed"]_vars
    /\ [](\A rec \in ReferenceRecords :
              StatusOf(txs, rec.tx_id) = "Failed" =>
                  /\ ~process_dispute(accounts, txs, rec).ok
                  /\ ~process_resolve(accounts, txs, rec).ok
                  /\ ~process_chargeback(accounts, txs, rec).ok
                  /\ process_dispute(accounts, txs, rec).accounts = accounts
                  /\ process_resolve(accounts, txs, rec).accounts = accounts
                  /\ process_chargeback(accounts, txs, rec).accounts = accounts)

\* A Failed entry whose client has an account, with records left in the
\* stream: records of every kind that reference the entry are processed next.
FailedEntryOfAccountHolder ==
    /\ processed < stream.len
    /\ \E t \in DOMAIN txs :
          /\ txs[t].status = "Failed"
          /\ txs[t].client_id \in DOMAIN accounts

\* C12: after a Deposit or Withdrawal record that passes the replay guard,
\* the ledger holds an entry for its tx id with the kind and amount of this
\* attempt, Processed if the attempt was applied to the account and Failed
\* otherwise.
EntryOfThisAttemptIsWritten ==
    [][\A rec \in AmountRecords :
          /\ (DispatchDeposit(rec) /\ prevent_replay_attack(TxGet(txs, rec.tx_id)))
                => /\ rec.tx_id \in DOMAIN txs'
                   /\ txs'[rec.tx_id].tx_type = "Deposit"
                   /\ txs'[rec.tx_id].amount = rec.amount
                   /\ txs'[rec.tx_id].status =
                          IF process_deposit(accounts, txs, rec).upserted
                          THEN "Processed" ELSE "Failed"
          /\ (DispatchWithdrawal(rec) /\ prevent_replay_attack(TxGet(txs, rec.tx_id)))
                => /\ rec.tx_id \in DOMAIN txs'
                   /\ txs'[rec.tx_id].tx_type = "Withdrawal"
                   /\ txs'[rec.tx_id].amount = rec.amount
                   /\ txs'[rec.tx_id].status =
                          IF process_withdrawal(accounts, txs, rec).upserted
                          THEN "Processed" ELSE "Failed"]_vars

\* C13: in every state, a Dispute, Resolve or Chargeback record that fails
\* (entry missing, entry in the wrong status, no account for the record's
\* client, disputed deposit amount greater than available) leaves the ledger
\* and the accounts exactly as they are.
FailedReferenceChangesNothing ==
    \A rec \in ReferenceRecords :
        LET d == process_dispute(accounts, txs, rec)
            r == process_resolve(accounts, txs, rec)
            c == process_chargeback(accounts, txs, rec)
        IN  /\ ~d.ok => (d.txs = txs /\ d.accounts = accounts /\ ~d.upserted)
            /\ ~r.ok => (r.txs = txs /\ r.accounts = accounts /\ ~r.upserted)
            /\ ~c.ok => (c.txs = txs /\ c.accounts = accounts /\ ~c.upserted)

\* A Processed Deposit entry whose Dispute passes the guard and then fails in
\* the handler, once because the amount is greater than the available funds
\* of the record's client and once because the record's client has no account.
DisputeFailsInsideHandler ==
    /\ \E rec \in ReferenceRecords :
          /\ StatusOf(txs, rec.tx_id) = "Processed"
          /\ txs[rec.tx_id].tx_type = "Deposit"
          /\ rec.client_id \in DOMAIN accounts
          /\ txs[rec.tx_id].amount > accounts[rec.client_id].available
          /\ ~process_dispute(accounts, txs, rec).ok
    /\ \E rec \in ReferenceRecords :
          /\ StatusOf(txs, rec.tx_id) = "Processed"
          /\ rec.client_id \notin DOMAIN accounts
          /\ ~process_dispute(accounts, txs, rec).ok

\* C14: a Dispute, Resolve or Chargeback record leaves the account of every
\* client other than the one stored in the referenced entry as it was (not
\* created, not changed, not locked), whatever client id the record carries.
OnlyOwnerAccountTouched ==
    [][\A rec \in ReferenceRecords :
          (DispatchDispute(rec) \/ DispatchResolve(rec) \/ DispatchChargeback(rec))
              => \A c \in ClientIds :
                    (rec.tx_id \in DOMAIN txs => c # txs[rec.tx_id].client_id)
                        => AccGet(accounts', c) = AccGet(accounts, c)]_vars

\* C15: a Withdrawal record that reaches its handler with an amount greater
\* than the available funds of its client (zero for a client without
\* account) leaves every account as it was, and afterwards the ledger holds a
\* Failed Withdrawal entry of that amount for its tx id.
InsufficientFundsIsRecordedFailed ==
    [][\A rec \in AmountRecords :
          (/\ DispatchWithdrawal(rec)
           /\ prevent_replay_attack(TxGet(txs, rec.tx_id))
           /\ rec.amount > BalancesOf(accounts, rec.client_id)[1])
              => /\ accounts' = accounts
                 /\ rec.tx_id \in DOMAIN txs'
                 /\ txs'[rec.tx_id].tx_type = "Withdrawal"
                 /\ txs'[rec.tx_id].amount = rec.amount
                 /\ txs'[rec.tx_id].status = "Failed"]_vars

\* C16: a Deposit record whose tx id has no ledger entry adds exactly its
\* amount to available and to total of its client (starting from a new
\* zero-balance account when the client has none), leaves held and the lock
\* as they were, leaves every other client's account as it was, and the
\* ledger then holds a Processed Deposit entry of that amount for the tx id.
FreshDepositAddsAmount ==
    [][\A rec \in AmountRecords :
          (DispatchDeposit(rec) /\ rec.tx_id \notin DOMAIN txs)
              => LET old == get_or_new(accounts, rec.client_id)
                 IN  /\ rec.client_id \in DOMAIN accounts'
                     /\ accounts'[rec.client_id].available = old.available + rec.amount
                     /\ accounts'[rec.client_id].total = old.total + rec.amount
                     /\ accounts'[rec.client_id].held = old.held
                     /\ accounts'[rec.client_id].is_locked = old.is_locked
                     /\ \A c \in ClientIds \ {rec.client_id} :
                            AccGet(accounts', c) = AccGet(accounts, c)
                     /\ rec.tx_id \in DOMAIN txs'
                     /\ txs'[rec.tx_id] = from_deposit(rec, "Processed")]_vars

\* C17: in every state, a Withdrawal record whose tx id has no ledger entry,
\* of an amount not greater than the available funds of its client's
\* existing account, takes exactly its amount from available and from total,
\* leaves held and the lock as they were, and leaves a Processed Withdrawal
\* entry of that amount for the tx id in the ledger.
FreshWithdrawalTakesAmount ==
    \A rec \in AmountRecords :
        (/\ rec.tx_id \notin DOMAIN txs
         /\ rec.client_id \in DOMAIN accounts
         /\ rec.amount <= accounts[rec.client_id].available)
            => LET old == accounts[rec.client_id]
                   out == process_withdrawal(accounts, txs, rec)
               IN  /\ out.ok
                   /\ rec.client_id \in DOMAIN out.accounts
                   /\ out.accounts[rec.client_id].available = old.available - rec.amount
                   /\ out.accounts[rec.client_id].total = old.total - rec.amount
                   /\ out.accounts[rec.client_id].held = old.held
                   /\ out.accounts[rec.client_id].is_locked = old.is_locked
                   /\ rec.tx_id \in DOMAIN out.txs
                   /\ out.txs[rec.tx_id] = from_withdrawal(rec, "Processed")

\* C18: in every state, a Dispute record that succeeds on a Processed Deposit
\* entry of amount a had a <= available, leaves the account it was applied to
\* with available - a and held + a, total and lock as they were, and moves
\* that entry, and no other entry, to Disputed.
DisputeOfDepositMovesToHeld ==
    \A rec \in ReferenceRecords :
        LET out == process_dispute(accounts, txs, rec)
        IN  (/\ out.ok
             /\ txs[rec.tx_id].tx_type = "Deposit")
                => LET old == accounts[rec.client_id]
                       new == out.accounts[rec.client_id]
                       a == txs[rec.tx_id].amount
                   IN  /\ a <= old.available
                       /\ new.available = old.available - a
                       /\ new.held = old.held + a
                       /\ new.total = old.total
                       /\ new.is_locked = old.is_locked
                       /\ out.txs = [txs EXCEPT ![rec.tx_id].status = "Disputed"]

\* C19: in every state, a Dispute record that succeeds on a Processed
\* Withdrawal entry of amount a leaves the account it was applied to with
\* available as it was, held + a and total = available + held + a, and moves
\* the entry to Disputed.
DisputeOfWithdrawalAddsToHeld ==
    \A rec \in ReferenceRecords :
        LET out == process_dispute(accounts, txs, rec)
        IN  (/\ out.ok
             /\ txs[rec.tx_id].tx_type = "Withdrawal")
                => LET old == accounts[rec.client_id]
                       new == out.accounts[rec.client_id]
                       a == txs[rec.tx_id].amount
                   IN  /\ new.available = old.available
                       /\ new.held = old.held + a
                       /\ new.total = new.available + new.held
                       /\ StatusOf(out.txs, rec.tx_id) = "Disputed"

\* C20: in every state, a Resolve record that succeeds on a Disputed entry of
\* amount a, Deposit or Withdrawal, leaves the account it was applied to with
\* available + a and held - a, total and lock as they were, and moves the
\* entry to Resolved.
ResolveMovesHeldToAvailable ==
    \A rec \in ReferenceRecords :
        LET out == process_resolve(accounts, txs, rec)
        IN  out.ok
                => LET old == accounts[rec.client_id]
                       new == out.accounts[rec.client_id]
                       a == txs[rec.tx_id].amount
                   IN  /\ new.available = old.available + a
                       /\ new.held = old.held - a
                       /\ new.total = old.total
                       /\ new.is_locked = old.is_locked
                       /\ StatusOf(out.txs, rec.tx_id) = "Resolved"

\* C21: in every state, for a Processed Deposit entry, a Dispute that succeeds
\* followed at once by the Resolve of the same record succeeds too and leaves
\* available and held of the account as they were before the Dispute, and
\* total is the same before, between and after the two records.
DisputeThenResolveRestores ==
    \A rec \in ReferenceRecords :
        LET d == process_dispute(accounts, txs, rec)
            r == process_resolve(d.accounts, d.txs, rec)
        IN  (/\ d.ok
             /\ txs[rec.tx_id].tx_type = "Deposit")
                => LET before == accounts[rec.client_id]
                       between == d.accounts[rec.client_id]
                       after == r.accounts[rec.client_id]
                   IN  /\ r.ok
                       /\ after.available = before.available
                       /\ after.held = before.held
                       /\ between.total = before.total
                       /\ after.total = before.total

\* C22: in every state, a Chargeback record that succeeds on an entry of kind
\* Deposit and amount a leaves the account it was applied to with
\* available - a and total - a, held as it was and the lock set, and moves
\* the entry to Chargedback.
ChargebackOfDepositTakesAmount ==
    \A rec \in ReferenceRecords :
        LET out == process_chargeback(accounts, txs, rec)
        IN  (/\ out.ok
             /\ txs[rec.tx_id].tx_type = "Deposit")
                => LET old == accounts[rec.client_id]
                       new == out.accounts[rec.client_id]
                       a == txs[rec.tx_id].amount
                   IN  /\ new.available = old.available - a
                       /\ new.total = old.total - a
                       /\ new.held = old.held
                       /\ new.is_locked
                       /\ StatusOf(out.txs, rec.tx_id) = "Chargedback"

\* C23: in the state that Deposit(a) and Withdrawal(w), w <= a, of one client
\* leave (one account with a - w available and nothing held, a Processed
\* Deposit entry and a Processed Withdrawal entry), the Dispute of the
\* withdrawal succeeds and the Chargeback of the withdrawal that follows it
\* succeeds, leaves available, held and total as the Dispute left them,
\* locks the account and moves the withdrawal entry to Chargedback.
ChargebackOfDisputedWithdrawalOnlyLocks ==
    \A rec \in ReferenceRecords : \A t \in DOMAIN txs :
        (/\ DOMAIN accounts = {rec.client_id}
         /\ DOMAIN txs = {t, rec.tx_id}
         /\ t # rec.tx_id
         /\ txs[t] = from_deposit([tx_id |-> t, client_id |-> rec.client_id,
                                   amount |-> txs[t].amount], "Processed")
         /\ txs[rec.tx_id] =
                from_withdrawal([tx_id |-> rec.tx_id, client_id |-> rec.client_id,
                                 amount |-> txs[rec.tx_id].amount], "Processed")
         /\ txs[rec.tx_id].amount <= txs[t].amount
         /\ accounts[rec.client_id] =
                [AccountNew(rec.client_id) EXCEPT
                    !.available = txs[t].amount - txs[rec.tx_id].amount,
                    !.total = txs[t].amount - txs[rec.tx_id].amount])
            => LET d == process_dispute(accounts, txs, rec)
                   c == process_chargeback(d.accounts, d.txs, rec)
               IN  /\ d.ok
                   /\ c.ok
                   /\ BalancesOf(c.accounts, rec.client_id) = BalancesOf(d.accounts, rec.client_id)
                   /\ c.accounts[rec.client_id].is_locked
                   /\ StatusOf(c.txs, rec.tx_id) = "Chargedback"

\* C24: process is fail-soft. Every step of the loop dispatches exactly one
\* more record of the stream, whatever the outcome of the record before it;
\* as long as records are left the loop can take the next one, so a rejected
\* or failed record never stops the ones behind it; and no record is
\* dispatched beyond the end of the stream, where process returns.
FailSoftProcessing ==
    /\ [][processed < stream.len /\ processed' = processed + 1]_vars
    /\ [](processed <= stream.len)
    /\ []((processed < stream.len) <=> ENABLED Next)

\* C24 witness: the stream is exhausted, the record that created entry 1
\* failed (a Withdrawal recorded Failed) and a record behind it was applied
\* (tx ids are taken in increasing order, so entry 2 is younger than entry 1).
StreamExhaustedAfterFailedThenApplied ==
    /\ processed = stream.len
    /\ 1 \in DOMAIN txs /\ txs[1].status = "Failed"
    /\ 2 \in DOMAIN txs /\ txs[2].status = "Processed"

\* C25: within one process call the records are applied strictly in input
\* order. At most one arm is in flight; the next record is taken from the
\* stream only when no arm is in flight, so every store write of record N
\* is complete before the first store read of record N + 1; a store changes
\* only in a step of the arm of the record taken last; and when an arm
\* completes, the stores are what the arm applied in one piece makes of the
\* stores the record before it left.
RecordsAppliedInInputOrder ==
    /\ [](Cardinality(inflight) <= 1)
    /\ [][processed' # processed => (inflight = {} /\ processed' = processed + 1)]_vars
    /\ [][(accounts' # accounts \/ txs' # txs)
            => \E arm \in inflight : arm.n = processed /\ processed' = processed]_vars
    /\ [][\A arm \in inflight :
            (\A next \in inflight' : next.n # arm.n)
                => LET out == ArmOutcome(arm.kind, arm.start.accounts, arm.start.txs, arm.rec)
                   IN  accounts' = out.accounts /\ txs' = out.txs]_vars

\* C25 witness: the second record has been taken from the stream and its arm
\* is in flight, with both writes of the first record (its account and its
\* ledger entry) in the stores.
SecondRecordBeginsAfterFirstIsWritten ==
    /\ processed = 2
    /\ \E arm \in inflight : arm.n = 2 /\ arm.pc = "account_upsert"
    /\ 1 \in DOMAIN accounts /\ accounts[1].total = 1
    /\ 1 \in DOMAIN txs /\ txs[1].status = "Processed"

\* C26: once the input is exhausted, the balance snapshot holds exactly one
\* record for every client id that received an event (here: every client id
\* that the stores show to have received one, as the owner of an account or
\* as the client of the Deposit or Withdrawal record behind a ledger entry),
\* and no record for any other client id.
SnapshotCoversEveryClientOfTheInput ==
    (processed = stream.len)
        => /\ {a.client_id : a \in balances(accounts)} = SeenClients
           /\ Cardinality(balances(accounts)) = Cardinality(SeenClients)

\* C27: insert of a transaction whose id the ledger already holds fails and
\* leaves the ledger as it was (the stored entry keeps kind, client, amount,
\* status); insert of a new id succeeds, adds exactly this entry and
\* leaves every other entry alone. So the ledger holds one entry per tx id
\* (each under its own id), and a Deposit or Withdrawal record naming an id
\* the ledger holds never creates the entry a second time.
InsertFailsOnDuplicateId ==
    /\ \A rec \in AmountRecords : \A status \in TransactionStatus :
          \A tx \in {from_deposit(rec, status), from_withdrawal(rec, status)} :
              LET r == insert(txs, tx)
              IN  IF tx.id \in DOMAIN txs
                  THEN ~r.ok /\ r.txs = txs
                  ELSE /\ r.ok
                       /\ DOMAIN r.txs = DOMAIN txs \cup {tx.id}
                       /\ r.txs[tx.id] = tx
                       /\ \A t \in DOMAIN txs : r.txs[t] = txs[t]
    /\ \A t \in DOMAIN txs : txs[t].id = t
    /\ \A rec \in AmountRecords :
          rec.tx_id \in DOMAIN txs
              => /\ process_deposit(accounts, txs, rec).txs = txs
                 /\ process_withdrawal(accounts, txs, rec).txs = txs

\* C27 witness: a Withdrawal naming the id of the Failed entry 1 has been
\* applied to the account (the only Deposit, 2, is taken out again), its
\* insert has failed and entry 1 is still the Failed Withdrawal it was.
DuplicateInsertLeftTheFailedEntry ==
    /\ DOMAIN txs = {1, 2}
    /\ txs[1] = from_withdrawal([tx_id |-> 1, client_id |-> 1, amount |-> 1], "Failed")
    /\ txs[2] = from_deposit([tx_id |-> 2, client_id |-> 1, amount |-> 1], "Processed")
    /\ 1 \in applied
    /\ accounts[1].total = 0

\* C28: update_status of a tx id the ledger does not hold fails and leaves
\* the ledger as it was (no entry is created); update_status of an id it
\* holds succeeds whatever the current and the new status are, sets the
\* status of that entry, keeps its other fields and leaves every other
\* entry alone.
UpdateStatusSetsAnyStatus ==
    \A t \in stream.tx_ids : \A status \in TransactionStatus :
        LET r == update_status(txs, t, status)
        IN  IF t \notin DOMAIN txs
            THEN ~r.ok /\ r.txs = txs
            ELSE /\ r.ok
                 /\ DOMAIN r.txs = DOMAIN txs
                 /\ r.txs[t] = [id |-> txs[t].id, client_id |-> txs[t].client_id,
                                tx_type |-> txs[t].tx_type, amount |-> txs[t].amount,
                                status |-> status]
                 /\ \A u \in DOMAIN txs \ {t} : r.txs[u] = txs[u]

\* C28 witness: update_status has moved entry 1 three times (to Disputed,
\* Resolved and Chargedback), next to a second entry it left Processed.
StatusUpdatedNextToAnotherEntry ==
    /\ DOMAIN txs = {1, 2}
    /\ txs[1].status = "Chargedback"
    /\ txs[2].status = "Processed"

\* C29: once a ledger entry exists, no record changes its tx id, client id,
\* kind or amount, and no record removes it: status is the only field of an
\* entry that a step of the engine can change.
OnlyStatusOfAnEntryChanges ==
    [][\A t \in DOMAIN txs :
          /\ t \in DOMAIN txs'
          /\ txs'[t].id = txs[t].id
          /\ txs'[t].client_id = txs[t].client_id
          /\ txs'[t].tx_type = txs[t].tx_type
          /\ txs'[t].amount = txs[t].amount]_vars

\* C29 witness: a Deposit of client 2 naming the id of the Failed Withdrawal
\* of client 1 has been applied (client 2 has the funds and no entry of its
\* own), and entry 1 is still the Withdrawal of client 1.
EntryKeptUnderForeignDeposit ==
    /\ DOMAIN txs = {1}
    /\ txs[1] = from_withdrawal([tx_id |-> 1, client_id |-> 1, amount |-> 1], "Failed")
    /\ 2 \in DOMAIN accounts
    /\ accounts[2].total = 1

\* The accounts handed to upsert in the check of C30: every client id, every
\* lock flag, and the smallest, the zero and the largest Decimal for each
\* balance.
UpsertInputs ==
    [client_id : ClientIds,
     available : {DecimalMin, 0, DecimalMax},
     held : {DecimalMin, 0, DecimalMax},
     total : {DecimalMin, 0, DecimalMax},
     is_locked : BOOLEAN]

\* C30: upsert stores available, held, total and the lock flag of the given
\* account under its client id, creates the record when the client has
\* none, and leaves the record of every other client as it was; no step of
\* the engine removes an account; get and get_or_new return the stored
\* record of a known client, get returns nothing and get_or_new a
\* zero-balance unlocked account for an unknown one, and a Deposit or
\* Withdrawal record whose handler does not reach upsert leaves the account
\* store as it was (the lookup stores nothing).
UpsertReplacesOneRecord ==
    /\ [](/\ \A account \in UpsertInputs :
              LET r == upsert(accounts, account)
              IN  /\ DOMAIN r = DOMAIN accounts \cup {account.client_id}
                  /\ r[account.client_id] = account
                  /\ \A c \in DOMAIN accounts \ {account.client_id} : r[c] = accounts[c]
          /\ \A c \in ClientIds :
              /\ AccGet(accounts, c) =
                    (IF c \in DOMAIN accounts THEN Some(accounts[c]) ELSE None)
              /\ get_or_new(accounts, c) =
                    (IF c \in DOMAIN accounts THEN accounts[c]
                     ELSE [client_id |-> c, available |-> 0, held |-> 0, total |-> 0,
                           is_locked |-> FALSE])
          /\ \A rec \in AmountRecords :
              LET d == process_deposit(accounts, txs, rec)
                  w == process_withdrawal(accounts, txs, rec)
              IN  /\ ~d.upserted => d.accounts = accounts
                  /\ ~w.upserted => w.accounts = accounts)
    /\ [][\A c \in DOMAIN accounts :
             c \in DOMAIN accounts' /\ accounts'[c].client_id = c]_vars

\* C30 witness: upsert has created the records of two clients and has then
\* replaced the balances of the first (its Deposit is disputed), with the
\* record of the second as its Deposit left it.
TwoAccountsOneReplaced ==
    /\ DOMAIN accounts = {1, 2}
    /\ accounts[1].held = 1 /\ accounts[1].available = 0 /\ ~accounts[1].is_locked
    /\ accounts[2].available = 1 /\ accounts[2].held = 0

DisputeThenResolveOfWithdrawalGivesBack ==
    \A rec \in ReferenceRecords :
        LET d == process_dispute(accounts, txs, rec)
            r == process_resolve(d.accounts, d.txs, rec)
        IN  (d.ok /\ txs[rec.tx_id].tx_type = "Withdrawal")
                => LET before == accounts[rec.client_id]
                       after == r.accounts[rec.client_id]
                       w == txs[rec.tx_id].amount
                   IN  /\ r.ok
                       /\ after.available = before.available + w
                       /\ after.total = before.total + w
                       /\ after.held = before.held
                       /\ StatusOf(r.txs, rec.tx_id) = "Resolved"

\* C34: for every stored account and every negative amount, deposit,
\* try_withdrawal and dispute in the deposit direction (Decrease) return an
\* error and leave available, held, total and the lock flag as they were;
\* deposit and dispute (Decrease) accept the amount zero.
NegativeAmountRejectedZeroAccepted ==
    \A c \in DOMAIN accounts :
        LET acc == accounts[c]
        IN  /\ \A a \in Amounts :
                /\ deposit(acc, 0 - a) = Err(acc)
                /\ try_withdrawal(acc, 0 - a) = Err(acc)
                /\ dispute(acc, Decrease(0 - a)) = Err(acc)
            /\ deposit(acc, 0).ok
            /\ dispute(acc, Decrease(0)).ok

\* C35: the status of a ledger entry only moves forward along
\* Processed, Disputed, Resolved, Chargedback, one or more places in a step
\* or none: an entry never returns to a status it held before (a Disputed
\* entry is never Processed again, so it is disputed at most once), and a
\* Chargedback or a Failed entry keeps its status for good.
StatusOnlyMovesForward ==
    [][\A t \in DOMAIN txs :
          LET Rank(status) ==
                  CASE status = "Processed" -> 0
                    [] status = "Disputed" -> 1
                    [] status = "Resolved" -> 2
                    [] status = "Chargedback" -> 3
                    [] status = "Failed" -> 4
          IN  /\ t \in DOMAIN txs'
              /\ Rank(txs'[t].status) >= Rank(txs[t].status)
              /\ txs[t].status \in {"Chargedback", "Failed"}
                    => txs'[t].status = txs[t].status
              /\ txs'[t].status = "Failed" => txs[t].status = "Failed"]_vars

\* C35 witness: entry 1 has gone all the way to Chargedback and one more
\* record has been dispatched after that.
ChargedbackEntryAfterTheLastRecord ==
    /\ processed = stream.len
    /\ 1 \in DOMAIN txs
    /\ txs[1].status = "Chargedback"
    /\ DOMAIN txs = {1}

\* C36: on input streams whose Dispute, Resolve and Chargeback records carry
\* the client id of the entry they reference, in every reachable state the
\* held of each account equals the sum of the amounts of that client's
\* ledger entries whose status is Disputed.
HeldIsSumOfDisputedAmounts ==
    \A c \in DOMAIN accounts : accounts[c].held = DisputedAmount(txs, c)

\* C37: the lock flag gates nothing. In every reachable state, for each record,
\* the arm of the record run on the stores as they are and run on the same
\* stores with the lock flag of the record's account inverted have the same
\* Result, leave the same available, held and total in that account and
\* leave the same ledger: a locked account accepts what an unlocked one
\* accepts.
LockFlagGatesNothing ==
    [](\A c \in DOMAIN accounts :
          LET flipped == [accounts EXCEPT ![c].is_locked = ~@]
          IN  \A t \in StreamTxIds :
                  LET rec == [client_id |-> c, tx_id |-> t]
                  IN  /\ \A amount \in Amounts :
                          LET arec == [client_id |-> c, tx_id |-> t, amount |-> amount]
                          IN  /\ LET a == process_deposit(accounts, txs, arec)
                                     b == process_deposit(flipped, txs, arec)
                                 IN  /\ a.ok = b.ok
                                     /\ a.txs = b.txs
                                     /\ BalancesOf(a.accounts, c) = BalancesOf(b.accounts, c)
                              /\ LET a == process_withdrawal(accounts, txs, arec)
                                     b == process_withdrawal(flipped, txs, arec)
                                 IN  /\ a.ok = b.ok
                                     /\ a.txs = b.txs
                                     /\ BalancesOf(a.accounts, c) = BalancesOf(b.accounts, c)
                      /\ LET a == process_dispute(accounts, txs, rec)
                             b == process_dispute(flipped, txs, rec)
                         IN  /\ a.ok = b.ok
                             /\ a.txs = b.txs
                             /\ BalancesOf(a.accounts, c) = BalancesOf(b.accounts, c)
                      /\ LET a == process_resolve(accounts, txs, rec)
                             b == process_resolve(flipped, txs, rec)
                         IN  /\ a.ok = b.ok
                             /\ a.txs = b.txs
                             /\ BalancesOf(a.accounts, c) = BalancesOf(b.accounts, c)
                      /\ LET a == process_chargeback(accounts, txs, rec)
                             b == process_chargeback(flipped, txs, rec)
                         IN  /\ a.ok = b.ok
                             /\ a.txs = b.txs
                             /\ BalancesOf(a.accounts, c) = BalancesOf(b.accounts, c))

\* C37 witness: the account of client 1 is locked by the Chargeback of its
\* Deposit 1, which left it without available funds, and has taken the
\* Deposit 2 after that.
LockedAccountTookADeposit ==
    /\ 1 \in DOMAIN accounts /\ accounts[1].is_locked
    /\ DOMAIN txs = {1, 2}
    /\ txs[1].status = "Chargedback" /\ txs[1].client_id = 1
    /\ txs[2] = from_deposit([tx_id |-> 2, client_id |-> 1, amount |-> 1], "Processed")
    /\ accounts[1].available = 1 /\ accounts[1].total = 1

\* ---------------------------------------------------------------- C38
\* C38: when two process calls run concurrently on the same stores with
\* Deposit records of distinct tx ids for one client, no update is lost:
\* once the arms of both calls have completed (the final state of the two
\* streams taken so far), and every record taken has left its own Processed
\* Deposit entry of that client, the available and the total of the client
\* are the sum of the amounts of these entries.
NoDepositLostBetweenTwoCalls ==
    (/\ inflight = {}
     /\ processed > 0
     /\ Cardinality(DOMAIN txs) = processed
     /\ \A t \in DOMAIN txs : txs[t].tx_type = "Deposit" /\ txs[t].status = "Processed")
    => \A c \in ClientIds :
          (\A t \in DOMAIN txs : txs[t].client_id = c)
          => /\ c \in DOMAIN accounts
             /\ accounts[c].available = SumOfAmounts(txs, DOMAIN txs)
             /\ accounts[c].total = SumOfAmounts(txs, DOMAIN txs)

\* ---------------------------------------------------------------- C39
\* C39: when two process calls run concurrently on the same stores and both
\* receive a Deposit with the same tx id, the amount is credited at most
\* once: when the arms of both calls have completed and the ledger holds
\* nothing but the Processed Deposit of one tx id, the available and the
\* total of its client do not exceed its amount.
SameIdDepositCreditedAtMostOnce ==
    \A t \in DOMAIN txs :
        (/\ inflight = {}
         /\ DOMAIN txs = {t}
         /\ txs[t].tx_type = "Deposit"
         /\ txs[t].status = "Processed"
         /\ DOMAIN accounts = {txs[t].client_id})
        => /\ accounts[txs[t].client_id].available <= txs[t].amount
           /\ accounts[txs[t].client_id].total <= txs[t].amount

\* ---------------------------------------------------------------- C31
\* The values of a ledger entry that a read may return: the stored one, and
\* while an insert or update_status holds the write guard the one after it.
WholeEntries(tx_id) ==
    {TxGet(txs, tx_id)} \cup
    {TxGet(IF call.kind = "insert" THEN insert(txs, call.arg).txs
           ELSE update_status(txs, call.arg.tx_id, call.arg.status).txs, tx_id) :
        call \in {w \in inflight : w.kind \in {"insert", "update_status"} /\ w.pc = "held"}}

\* The values get_or_new may return: the whole accounts of the client, a new
\* account where the client has none.
WholeOrNew(client_id) ==
    {IF v.some THEN v ELSE Some(AccountNew(client_id)) : v \in WholeAccounts(client_id)}

\* C31: with concurrent callers a get, get_or_new, balances or ledger get never
\* returns a partially applied write: every account it copies under its read
\* guard has its four fields all from before or all from after any upsert
\* that is in progress, and every ledger entry it copies is the entry from
\* before or from after an insert / update_status in progress.
ReadNeverObservesPartialWrite ==
    [][\A call \in inflight' \ inflight :
          (call.kind \in AccountCalls \cup LedgerCalls
           /\ call.kind \notin WriterCalls /\ call.pc = "returning")
          => \A v \in call.seen :
                CASE call.kind = "get" -> v \in WholeAccounts(call.arg)
                  [] call.kind = "get_or_new" -> v \in WholeOrNew(call.arg)
                  [] call.kind = "balances" -> v \in WholeAccounts(v.val.client_id)
                  [] call.kind = "tx_get" -> v \in WholeEntries(call.arg)]_vars

\* C31 witness: a get was called while the and_modify of an upsert had
\* assigned available and not yet total (the map held an account that no
\* caller ever passed to upsert), and has copied the account that upsert has
\* completed.
GetCalledDuringUpsertSawTheWholeAccount ==
    \E call \in inflight :
        /\ call.kind = "get"
        /\ call.pc = "returning"
        /\ call.start.some
        /\ call.start.val.available = DecimalMax
        /\ call.start.val.total = 0
        /\ call.seen = {Some([call.start.val EXCEPT !.total = DecimalMax])}

=========================================================================
